---- MODULE Spec2Model ----
(***************************************************************************)
(* Model of the session protocol engine of the TTS bridge (src/bridge.py): *)
(* TTSBridge.handle_websocket_connection and the coroutines it awaits.     *)
(*                                                                         *)
(* One task per connection runs on a single-threaded event loop, so every  *)
(* action below is the code a task executes between two suspension points  *)
(* (the awaits of the probe call, the synthesis call, websocket.send, the  *)
(* pacing sleep and the receive of the next frame).  websocket.send puts   *)
(* the message on the wire when it is called and then suspends the task;   *)
(* on a socket the peer has closed it raises at the call.  Whether the     *)
(* peer has closed by then is an input of the step that sends or reads.    *)
(***************************************************************************)
EXTENDS Integers, Sequences, FiniteSets, TLC

(* ---------------------------- bounds ----------------------------------- *)
\* number of connections the environment opens
NumConns == 2
\* number of inbound frames the clients send, over all connections
MaxFrames == 2

(* ------------------------ program constants ---------------------------- *)
\* MAX_CONCURRENT_SESSIONS, read from the environment (default 10)
MAX_CONCURRENT_SESSIONS == 1
\* CHUNK in stream_audio_chunks
CHUNK == 1920

Conns == 1..NumConns

\* sample counts of the containers the upstream returns
SampleLens == {0, 1920, 3200}

\* what one upstream synthesis call can produce:
\*   fail     non-200 status, timeout or transport error (synthesize_text -> None)
\*   empty    status 200 with an empty body
\*   garbage  status 200 with a body wave.open cannot parse
\*   wav      status 200 with a parsable container of n sample frames
SynthOutcomes ==
    {[kind |-> "fail", n |-> 0], [kind |-> "empty", n |-> 0],
     [kind |-> "garbage", n |-> 0]}
    \cup {[kind |-> "wav", n |-> L] : L \in SampleLens}

\* inbound frames, by what the loop body looks at:
\*   enc    "bytes" (decoded with msgpack.unpackb) or "str" (with json.loads)
\*   value  what the decoder gives: "undecodable" (it raises), a "map", a
\*          "scalar" (number, bool, null), a "list" (a list or string in
\*          which "text" does not occur) or a "textlist" (one in which it does)
\*   type   the "type" entry of a msgpack map: "Text", "Eos" or "other"
\*   text   the "text" entry of a map: "absent", a "blank" string, a
\*          "nonblank" string, or "nonstring"
Frames ==
    {f \in [enc : {"bytes", "str"},
            value : {"undecodable", "map", "list", "textlist", "scalar"},
            type : {"Text", "Eos", "other"},
            text : {"absent", "blank", "nonblank", "nonstring"}] :
        /\ f.value # "map" => f.type = "other" /\ f.text = "absent"
        /\ f.enc = "str" => f.type = "other"
        /\ f.type = "Eos" => f.text = "absent"
        /\ f.enc = "bytes" => f.value # "textlist"}

VARIABLES
    active_sessions,    \* TTSBridge.active_sessions
    connection_count,   \* TTSBridge.connection_count
    is_running,         \* TTSBridge.is_running
    pc,                 \* pc[c]: the await connection c's task is suspended at
    open,               \* open[c]: the socket of c is still open
    sent,               \* sent[c]: the messages written to c's socket, in order
    nframes,            \* nframes[c]: the number of frames read from c's socket
    route,              \* route[c]: what the loop body of c did with its last frame
                        \*           ("-" before the first frame and once the task ended)
    result,             \* result[c]: what synthesize_text returned for that frame, while
                        \*            no exception has left handle_text_message
    stream,             \* stream[c]: total and sent of stream_audio_chunks
    hs,                 \* hs[c]: what the handshake of c read and got
    probes,             \* probes[c]: probe requests issued for c
    synths,             \* synths[c]: synthesis requests issued for c
    incs,               \* incs[c]: increments of active_sessions by c's task
    decs                \* decs[c]: decrements of active_sessions by c's task

vars == <<active_sessions, connection_count, is_running, pc, open, sent,
          nframes, route, result, stream, hs, probes, synths, incs, decs>>

(* ----------------------------- messages -------------------------------- *)
\* enc is the encoding of a message on the wire (msgpack.packb in a binary
\* frame, json.dumps in a text frame) and type its "type" entry; frame is the
\* number of the inbound frame it answers, 0 for the handshake; size is the
\* number of samples in the "pcm" entry of an Audio message
Ready ==
    [enc |-> "msgpack", type |-> "Ready", message |-> "", frame |-> 0, size |-> 0]

ErrorMsg(text, n) ==
    [enc |-> "json", type |-> "error", message |-> text, frame |-> n, size |-> 0]

AudioMsg(k, n) ==
    [enc |-> "msgpack", type |-> "Audio", message |-> "", frame |-> n, size |-> k]

NoStream == [total |-> 0, sent |-> 0]

\* no synthesis call has returned for the frame
NoResult == [kind |-> "-", n |-> 0]

NoHandshake == [sessions |-> 0, running |-> TRUE, probe |-> "none"]

\* f[1] + ... + f[n]
RECURSIVE Sum(_, _)
Sum(f, n) == IF n = 0 THEN 0 ELSE f[n] + Sum(f, n - 1)

\* the frames read so far, over all connections
FramesRead == Sum(nframes, NumConns)

\* mutant: every chunk is a full one
MinAlwaysFirst(a, b) == a

\* the size of the slice pcm[sent:sent + CHUNK]
Min(a, b) == IF a < b THEN a ELSE b

(* ------------------------------ Init ----------------------------------- *)
Init ==
    /\ active_sessions = 0
    /\ connection_count = 0
    /\ is_running = TRUE
    /\ pc = [c \in Conns |-> "idle"]
    /\ open = [c \in Conns |-> TRUE]
    /\ sent = [c \in Conns |-> <<>>]
    /\ nframes = [c \in Conns |-> 0]
    /\ route = [c \in Conns |-> "-"]
    /\ result = [c \in Conns |-> NoResult]
    /\ stream = [c \in Conns |-> NoStream]
    /\ hs = [c \in Conns |-> NoHandshake]
    /\ probes = [c \in Conns |-> 0]
    /\ synths = [c \in Conns |-> 0]
    /\ incs = [c \in Conns |-> 0]
    /\ decs = [c \in Conns |-> 0]

(* --------------------------- the cleanup block ------------------------- *)
\* mutant: the cleanup block leaves the counter alone
DecrementSkipped(n) == n

\* mutant: the decrement without its guard
DecrementUnguarded(n) == n - 1

\* finally: if self.active_sessions > 0: self.active_sessions -= 1
Decrement(n) == IF n > 0 THEN n - 1 ELSE n

\* the except clauses only log; the finally block runs and the task ends,
\* and its locals with it
Finally(c) ==
    /\ route' = [route EXCEPT ![c] = "-"]
    /\ result' = [result EXCEPT ![c] = NoResult]
    /\ active_sessions' = Decrement(active_sessions)
    /\ decs' = [decs EXCEPT ![c] = @ + (active_sessions - Decrement(active_sessions))]
    /\ pc' = [pc EXCEPT ![c] = "done"]

(* ------------------------------ handshake ------------------------------ *)
\* mutant: the flag is checked before the capacity
HandshakeCheckFlagFirst(n, running) ==
    IF ~running THEN "unavailable"
    ELSE IF n >= MAX_CONCURRENT_SESSIONS THEN "capacity"
    ELSE "probe"

\* the checks made before the first await: capacity, then the flag
HandshakeCheck(n, running) ==
    IF n >= MAX_CONCURRENT_SESSIONS THEN "capacity"
    ELSE IF ~running THEN "unavailable"
    ELSE "probe"

RejectText(check) ==
    IF check = "capacity" THEN "Service at capacity" ELSE "Service unavailable"

\* A connection is accepted and its handler runs up to its first await.
\* alive: whether the peer is still there when the handler sends.
Connect(c, alive) ==
    /\ pc[c] = "idle"
    /\ c = connection_count + 1
    /\ connection_count' = connection_count + 1
    /\ hs' = [hs EXCEPT ![c] = [sessions |-> active_sessions,
                                running |-> is_running, probe |-> "none"]]
    /\ LET check == HandshakeCheck(active_sessions, is_running) IN
       IF check = "probe"
       THEN \* test_groq_api posts the probe request
            /\ alive
            /\ probes' = [probes EXCEPT ![c] = @ + 1]
            /\ pc' = [pc EXCEPT ![c] = "probe"]
            /\ UNCHANGED <<active_sessions, open, sent, route, result, decs>>
       ELSE IF alive
       THEN \* send_capacity_error / send_error, then return
            /\ sent' = [sent EXCEPT ![c] = Append(@, ErrorMsg(RejectText(check), 0))]
            /\ pc' = [pc EXCEPT ![c] = "reject_sent"]
            /\ UNCHANGED <<active_sessions, open, probes, route, result, decs>>
       ELSE \* the send fails: raised by send_capacity_error, swallowed by send_error
            /\ open' = [open EXCEPT ![c] = FALSE]
            /\ Finally(c)
            /\ UNCHANGED <<sent, probes>>
    /\ UNCHANGED <<is_running, nframes, stream, synths, incs>>

\* mutant: no return after the Error, the handler goes on to the probe
RejectSentFallsThrough(c) ==
    /\ pc[c] = "reject_sent"
    /\ hs[c].probe = "none"
    /\ probes' = [probes EXCEPT ![c] = @ + 1]
    /\ pc' = [pc EXCEPT ![c] = "probe"]
    /\ UNCHANGED <<active_sessions, connection_count, is_running, open, sent,
                   nframes, route, result, stream, hs, synths, incs, decs>>

\* mutant: no return after the Error, the handler goes on to the loop
RejectSentIntoLoop(c) ==
    /\ pc[c] = "reject_sent"
    /\ pc' = [pc EXCEPT ![c] = "recv"]
    /\ UNCHANGED <<active_sessions, connection_count, is_running, open, sent,
                   nframes, route, result, stream, hs, probes, synths, incs, decs>>

\* the send of a handshake Error returns; the handler returns
RejectSent(c) ==
    /\ pc[c] = "reject_sent"
    /\ Finally(c)
    /\ UNCHANGED <<connection_count, is_running, open, sent, nframes, stream, hs, probes, synths, incs>>

\* test_groq_api returns ok (status 200) or not (other status, exception)
ProbeDone(c, ok, alive) ==
    /\ pc[c] = "probe"
    /\ hs' = [hs EXCEPT ![c].probe = IF ok THEN "ok" ELSE "fail"]
    /\ IF alive
       THEN /\ sent' = [sent EXCEPT ![c] =
                  Append(@, IF ok THEN Ready ELSE ErrorMsg("TTS API unavailable", 0))]
            /\ pc' = [pc EXCEPT ![c] = IF ok THEN "ready_sent" ELSE "reject_sent"]
            /\ UNCHANGED <<active_sessions, open, route, result, decs>>
       ELSE \* send_ready_message raises, send_error swallows: no loop either way
            /\ open' = [open EXCEPT ![c] = FALSE]
            /\ Finally(c)
            /\ UNCHANGED sent
    /\ UNCHANGED <<connection_count, is_running, nframes, stream,
                   probes, synths, incs>>

\* the send of Ready returns: self.active_sessions += 1, then the loop starts
ReadySent(c) ==
    /\ pc[c] = "ready_sent"
    /\ active_sessions' = active_sessions + 1
    /\ incs' = [incs EXCEPT ![c] = @ + 1]
    /\ pc' = [pc EXCEPT ![c] = "recv"]
    /\ UNCHANGED <<connection_count, is_running, open, sent, nframes, route, result,
                   stream, hs, probes, synths, decs>>

(* ------------------------------ dispatch ------------------------------- *)
\* mutant: the text is not tested for emptiness
TextRouteUnchecked(text) ==
    IF text = "nonstring" THEN "Message processing failed" ELSE "synth"

\* handle_text_message up to its first await, by message_data.get("text", "")
TextRoute(text) ==
    IF text = "nonstring" THEN "Message processing failed"   \* .strip() raises
    ELSE IF text = "nonblank" THEN "synth"
    ELSE "Empty text provided"

\* mutant: a message of an unknown type is dropped without a reply
TagRouteUnknownDropped(type, text) ==
    IF type = "Text" THEN TextRoute(text) ELSE "none"

\* mutant: Eos is not a known type
TagRouteEosUnknown(type, text) ==
    IF type = "Text" THEN TextRoute(text) ELSE "Invalid message format"

\* the dispatch of a msgpack map on mtype = data.get("type")
TagRoute(type, text) ==
    IF type = "Text" THEN TextRoute(text)
    ELSE IF type = "Eos" THEN "none"
    ELSE "Invalid message format"

\* what the loop body does with a frame before its first await:
\*   "synth"  handle_text_message calls synthesize_text
\*   "none"   nothing is sent
\*   else     the text of the Error it sends
Route(f) ==
    IF f.enc = "bytes"
    THEN IF f.value # "map" THEN "Message processing failed"  \* unpackb or data.get raises
         ELSE TagRoute(f.type, f.text)
    ELSE IF f.value \in {"undecodable", "scalar"}
         THEN "Message processing failed"       \* json.loads or the `in` test raises
         ELSE IF f.value = "textlist"
         THEN "Message processing failed"       \* message_data.get raises
         ELSE IF f.value = "map" /\ f.text # "absent" THEN TextRoute(f.text)
         ELSE "Invalid message format"

\* mutant: the next frame is read while the pacing sleep is pending
CanReadWhileStreaming(c) == pc[c] \in {"recv", "pace"}

\* async for message in websocket: the task reads at the top of the loop only
CanRead(c) == pc[c] = "recv"

\* send_error in the loop: the Error goes out, or the failure of the send is
\* swallowed; either way the loop goes on to the next frame
SendError(c, text, n, alive) ==
    IF alive
    THEN /\ sent' = [sent EXCEPT ![c] = Append(@, ErrorMsg(text, n))]
         /\ pc' = [pc EXCEPT ![c] = "err_sent"]
         /\ UNCHANGED open
    ELSE /\ open' = [open EXCEPT ![c] = FALSE]
         /\ pc' = [pc EXCEPT ![c] = "recv"]
         /\ UNCHANGED sent

\* the next frame arrives and is routed
Recv(c, f, alive) ==
    /\ CanRead(c)
    /\ open[c]
    /\ FramesRead < MaxFrames
    /\ nframes' = [nframes EXCEPT ![c] = @ + 1]
    /\ route' = [route EXCEPT ![c] = Route(f)]
    /\ result' = [result EXCEPT ![c] = NoResult]
    /\ LET r == Route(f) IN
       IF r = "synth"
       THEN /\ alive
            /\ synths' = [synths EXCEPT ![c] = @ + 1]
            /\ pc' = [pc EXCEPT ![c] = "synth"]
            /\ UNCHANGED <<sent, open>>
       ELSE IF r = "none"
       THEN /\ alive
            /\ pc' = [pc EXCEPT ![c] = "recv"]
            /\ UNCHANGED <<sent, open, synths>>
       ELSE /\ SendError(c, r, nframes[c] + 1, alive)
            /\ UNCHANGED synths
    /\ UNCHANGED <<active_sessions, connection_count, is_running, hs, probes,
                   stream, incs, decs>>

\* the socket is closed: the loop ends (or recv raises ConnectionClosed)
RecvClosed(c) ==
    /\ pc[c] = "recv"
    /\ open' = [open EXCEPT ![c] = FALSE]
    /\ Finally(c)
    /\ UNCHANGED <<connection_count, is_running, sent, nframes, stream,
                   hs, probes, synths, incs>>

\* mutant: the failure of one message ends the handler
ErrSentEndsHandler(c) ==
    /\ pc[c] = "err_sent"
    /\ Finally(c)
    /\ UNCHANGED <<connection_count, is_running, open, sent, nframes, stream, hs, probes, synths, incs>>

\* the send of an Error in the loop returns; the loop goes to the next frame
ErrSent(c) ==
    /\ pc[c] = "err_sent"
    /\ pc' = [pc EXCEPT ![c] = "recv"]
    /\ UNCHANGED <<active_sessions, connection_count, is_running, open, sent,
                   nframes, route, result, stream, hs, probes, synths, incs, decs>>

\* mutant: a failed send is skipped and the while loop goes on
StreamStepSkipsFailure(c, total, done, alive) ==
    IF done < total
    THEN /\ sent' = [sent EXCEPT ![c] =
               IF alive THEN Append(@, AudioMsg(Min(CHUNK, total - done), nframes[c]))
               ELSE @]
         /\ stream' = [stream EXCEPT ![c] = [total |-> total, sent |-> done]]
         /\ pc' = [pc EXCEPT ![c] = "audio_sent"]
         /\ open' = [open EXCEPT ![c] = alive]
    ELSE /\ alive
         /\ stream' = [stream EXCEPT ![c] = NoStream]
         /\ pc' = [pc EXCEPT ![c] = "recv"]
         /\ UNCHANGED <<sent, open>>

\* stream_audio_chunks, one turn of its while loop from `while sent < total`
\* to the await of the send.  A send on a closed socket raises; the except
\* clause of the loop body then fails to send its Error too (send_error
\* swallows that), and the loop goes on to the next frame.
StreamStep(c, total, done, alive) ==
    IF done < total /\ alive
    THEN /\ sent' = [sent EXCEPT ![c] =
               Append(@, AudioMsg(Min(CHUNK, total - done), nframes[c]))]
         /\ stream' = [stream EXCEPT ![c] = [total |-> total, sent |-> done]]
         /\ pc' = [pc EXCEPT ![c] = "audio_sent"]
         /\ UNCHANGED open
    ELSE /\ (done < total) = ~alive
         /\ open' = [open EXCEPT ![c] = alive]
         /\ stream' = [stream EXCEPT ![c] = NoStream]
         /\ pc' = [pc EXCEPT ![c] = "recv"]
         /\ UNCHANGED sent

\* mutant: a body that cannot be parsed counts as no audio
HasAudioOnlyParsable(r) == r.kind = "wav"

\* mutant: only an empty body counts as no audio
HasAudioUnlessEmpty(r) == r.kind # "empty"

\* `if audio_data:` in handle_text_message: None and b"" are false
HasAudio(r) == r.kind \notin {"fail", "empty"}

\* synthesize_text returns
SynthDone(c, r, alive) ==
    /\ pc[c] = "synth"
    /\ result' = [result EXCEPT ![c] = IF alive THEN r ELSE NoResult]
    /\ IF ~HasAudio(r)
       THEN \* audio_data is None or b"": send_error("TTS synthesis failed")
            /\ SendError(c, "TTS synthesis failed", nframes[c], alive)
            /\ UNCHANGED stream
       ELSE IF r.kind \notin {"wav"}
       THEN \* wav_bytes_to_pcm_f32 raises: logged, stream_audio_chunks returns
            \* (the log call of lines 202-203 is read as one string literal)
            /\ alive
            /\ pc' = [pc EXCEPT ![c] = "recv"]
            /\ UNCHANGED <<sent, open, stream>>
       ELSE StreamStep(c, r.n, 0, alive)
    /\ UNCHANGED <<active_sessions, connection_count, is_running, nframes, route,
                   hs, probes, synths, incs, decs>>

\* the send of an Audio frame returns: sent += chunk.size, then the sleep
AudioSent(c) ==
    /\ pc[c] = "audio_sent"
    /\ stream' = [stream EXCEPT ![c].sent = @ + Min(CHUNK, stream[c].total - @)]
    /\ pc' = [pc EXCEPT ![c] = "pace"]
    /\ UNCHANGED <<active_sessions, connection_count, is_running, open, sent,
                   nframes, route, result, hs, probes, synths, incs, decs>>

\* the pacing sleep returns: the while loop sends the next chunk or ends
PaceDone(c, alive) ==
    /\ pc[c] = "pace"
    /\ result' = [result EXCEPT ![c] = IF alive THEN @ ELSE NoResult]
    /\ StreamStep(c, stream[c].total, stream[c].sent, alive)
    /\ UNCHANGED <<active_sessions, connection_count, is_running, nframes, route,
                   hs, probes, synths, incs, decs>>

(* ----------------------------- environment ----------------------------- *)
\* The service is marked unavailable.  is_running is a public attribute set
\* to True by __init__; nothing in bridge.py clears it, so this step stands for
\* the process that embeds the bridge and is part of SpecFlag only.
ClearRunning ==
    /\ is_running
    /\ connection_count < NumConns      \* only a later handshake reads the flag
    /\ is_running' = FALSE
    /\ UNCHANGED <<active_sessions, connection_count, pc, open, sent, nframes,
                   route, result, stream, hs, probes, synths, incs, decs>>

Next ==
    \/ \E c \in Conns, alive \in BOOLEAN : Connect(c, alive)
    \/ \E c \in Conns : RejectSent(c)
    \/ \E c \in Conns, ok \in BOOLEAN, alive \in BOOLEAN : ProbeDone(c, ok, alive)
    \/ \E c \in Conns : ReadySent(c)
    \/ \E c \in Conns, f \in Frames, alive \in BOOLEAN : Recv(c, f, alive)
    \/ \E c \in Conns : RecvClosed(c)
    \/ \E c \in Conns : ErrSent(c)
    \/ \E c \in Conns, r \in SynthOutcomes, alive \in BOOLEAN : SynthDone(c, r, alive)
    \/ \E c \in Conns : AudioSent(c)
    \/ \E c \in Conns, alive \in BOOLEAN : PaceDone(c, alive)

Spec == Init /\ [][Next]_vars

\* the same program in a process that may clear is_running
NextFlag == Next \/ ClearRunning

SpecFlag == Init /\ [][NextFlag]_vars

(* ======================================================================= *)
(* Properties                                                              *)
(* ======================================================================= *)
Msgs(c) == {sent[c][i] : i \in DOMAIN sent[c]}

\* the messages of the handshake of c, in order
Handshake(c) == SelectSeq(sent[c], LAMBDA m : m.frame = 0)

\* the replies to the n-th frame of c, in order
Replies(c, n) == SelectSeq(sent[c], LAMBDA m : m.frame = n)

\* Ready has been sent to c and the handler of c has not ended
Admitted(c) == Ready \in Msgs(c) /\ pc[c] # "done"

\* c is in the dispatch loop
InLoop(c) == pc[c] \in {"recv", "synth", "err_sent", "audio_sent", "pace"}

\* C1: the session counter never exceeds MAX_CONCURRENT_SESSIONS.
C1_CounterAtMostCapacity == active_sessions <= MAX_CONCURRENT_SESSIONS

\* C2: at no time are more than MAX_CONCURRENT_SESSIONS connections admitted
\* (Ready sent, handler not ended) at once.
C2_AdmittedAtMostCapacity ==
    Cardinality({c \in Conns : Admitted(c)}) <= MAX_CONCURRENT_SESSIONS

\* C3: a connection rejected because the counter was at capacity leaves the
\* counter as it found it: its handler, cleanup block included, neither
\* increments nor decrements it.
C3_CapacityRejectLeavesCounter ==
    \A c \in Conns :
        pc[c] = "done" /\ hs[c].sessions >= MAX_CONCURRENT_SESSIONS
            => incs[c] = 0 /\ decs[c] = 0

\* C4: every admitted connection decrements the counter exactly once when
\* it ends.
C4_AdmittedDecrementsOnce ==
    \A c \in Conns : pc[c] = "done" /\ incs[c] = 1 => decs[c] = 1

\* C5: the session counter is never negative.
C5_CounterNonNegative == active_sessions >= 0

C5_Witness ==
    \E c \in Conns : pc[c] = "done" /\ decs[c] = 0 /\ active_sessions = 0

\* C6: the handshake of a connection sends at most one message, a Ready or
\* an Error, and exactly one unless the socket failed.
C6_OneHandshakeMessage ==
    \A c \in Conns :
        LET h == Handshake(c) IN
        /\ Len(h) <= 1
        /\ \A i \in DOMAIN h : h[i].type \in {"Ready", "error"}
        /\ pc[c] \notin {"idle", "probe"} /\ open[c] => Len(h) = 1

C6_Witness ==
    \E c, d \in Conns :
        /\ Handshake(c) = <<Ready>> /\ Len(sent[c]) > 1
        /\ Handshake(d) = <<ErrorMsg("Service at capacity", 0)>> /\ pc[d] = "done"

\* c was rejected: it is not and was never in the dispatch loop
NeverInLoop(c) ==
    ~InLoop(c) /\ nframes[c] = 0 /\ synths[c] = 0 /\ incs[c] = 0

\* the handshake message of c, if one was sent, is m
HandshakeIs(c, m) == Handshake(c) \in {<<>>, <<m>>}

\* C7: the handshake checks capacity, then the flag, then the upstream, and
\* stops at the first failure; the probe is issued only after the first two
\* checks passed, and a rejected connection never enters the dispatch loop.
C7_HandshakeOrder ==
    \A c \in Conns : pc[c] # "idle" =>
        IF hs[c].sessions >= MAX_CONCURRENT_SESSIONS
        THEN /\ HandshakeIs(c, ErrorMsg("Service at capacity", 0))
             /\ probes[c] = 0 /\ NeverInLoop(c)
        ELSE IF ~hs[c].running
        THEN /\ HandshakeIs(c, ErrorMsg("Service unavailable", 0))
             /\ probes[c] = 0 /\ NeverInLoop(c)
        ELSE IF hs[c].probe = "fail"
        THEN /\ HandshakeIs(c, ErrorMsg("TTS API unavailable", 0))
             /\ probes[c] = 1 /\ NeverInLoop(c)
        ELSE IF hs[c].probe = "ok"
        THEN HandshakeIs(c, Ready) /\ probes[c] = 1
        ELSE Handshake(c) = <<>> /\ probes[c] = 1

C7_Witness ==
    \E c, d \in Conns :
        /\ hs[c].sessions >= MAX_CONCURRENT_SESSIONS /\ ~hs[c].running
        /\ Handshake(c) = <<ErrorMsg("Service at capacity", 0)>>
        /\ hs[d].sessions < MAX_CONCURRENT_SESSIONS /\ hs[d].probe = "ok"
        /\ Handshake(d) = <<Ready>>

\* C8: no Audio message is sent on a connection before Ready; a connection
\* that was not sent Ready gets no Audio and causes no synthesis request.
C8_NoAudioBeforeReady ==
    \A c \in Conns :
        /\ \A i \in DOMAIN sent[c] :
               sent[c][i].type = "Audio" => \E j \in 1..(i - 1) : sent[c][j] = Ready
        /\ Ready \notin Msgs(c) => synths[c] = 0

C8_Witness ==
    \E c, d \in Conns :
        /\ \E m \in Msgs(c) : m.type = "Audio"
        /\ pc[d] = "done" /\ Ready \notin Msgs(d) /\ sent[d] # <<>>

\* the frames whose decoding or handling raises an exception in the loop body
Raises(f) ==
    \/ f.value = "undecodable"
    \/ f.enc = "bytes" /\ f.value # "map"
    \/ f.enc = "str" /\ f.value \in {"scalar", "textlist"}
    \/ f.text = "nonstring" /\ (f.enc = "str" \/ f.type = "Text")

\* every frame whose handling raises is routed to the except clause
RaisingFramesFail ==
    \A f \in Frames : Raises(f) => Route(f) = "Message processing failed"

\* C9: a frame whose handling raises is answered with Error "Message
\* processing failed" and the loop goes on; no step that handles a frame ends
\* the handler, which ends only once the socket is closed or has failed.
C9_BadFrameKeepsLoop ==
    /\ RaisingFramesFail
    /\ \A c \in Conns :
        /\ route[c] = "Message processing failed" /\ open[c] =>
              /\ InLoop(c)
              /\ Replies(c, nframes[c]) =
                     <<ErrorMsg("Message processing failed", nframes[c])>>
        /\ pc[c] = "done" /\ incs[c] = 1 => ~open[c]

C9_Witness ==
    \E c \in Conns :
        /\ nframes[c] = 2
        /\ Replies(c, 1) = <<ErrorMsg("Message processing failed", 1)>>
        /\ Replies(c, 2) # <<>>

RECURSIVE SumSizes(_)
SumSizes(q) == IF q = <<>> THEN 0 ELSE Head(q).size + SumSizes(Tail(q))

\* C10: the replies on a connection are in the order of the frames they
\* answer, and while a request is being streamed no further frame is read:
\* the Audio messages sent so far are those of the frame read last.
C10_SequentialHandling ==
    \A c \in Conns :
        /\ \A i \in 1..(Len(sent[c]) - 1) : sent[c][i].frame <= sent[c][i + 1].frame
        /\ \A i \in DOMAIN sent[c] : sent[c][i].frame <= nframes[c]
        /\ stream[c] # NoStream =>
              LET q == Replies(c, nframes[c]) IN
              /\ pc[c] \in {"audio_sent", "pace"}
              /\ \A i \in DOMAIN q : q[i].type = "Audio"
              /\ SumSizes(q) =
                     IF pc[c] = "pace" THEN stream[c].sent
                     ELSE stream[c].sent + Min(CHUNK, stream[c].total - stream[c].sent)

C10_Witness ==
    \E c, d \in Conns :
        /\ c # d /\ InLoop(d)
        /\ nframes[c] = 2 /\ pc[c] = "pace"
        /\ Len(Replies(c, 1)) = 2 /\ Len(Replies(c, 2)) = 2
        /\ \A m \in Msgs(c) : m.frame > 0 => m.type = "Audio"

\* the stream of c's last frame has run to its end with every send succeeding
StreamCompleted(c) ==
    route[c] = "synth" /\ result[c].kind = "wav" /\ pc[c] = "recv" /\ open[c]

\* C11: a container of L samples streamed with every send succeeding gives
\* exactly ceil(L / CHUNK) messages, all of them Audio, none empty, every one
\* but the last of CHUNK samples, the sizes adding up to L.
C11_ChunkedStream ==
    \A c \in Conns : StreamCompleted(c) =>
        LET q == Replies(c, nframes[c])
            L == result[c].n
        IN  /\ Len(q) = (L + CHUNK - 1) \div CHUNK
            /\ \A i \in DOMAIN q :
                  /\ q[i].type = "Audio"
                  /\ q[i].size > 0
                  /\ i < Len(q) => q[i].size = CHUNK
                  /\ i = Len(q) => q[i].size = L - CHUNK * (Len(q) - 1)

C11_Witness ==
    \E c \in Conns :
        /\ StreamCompleted(c) /\ result[c].n = 3200
        /\ Replies(c, nframes[c]) =
               <<AudioMsg(1920, nframes[c]), AudioMsg(1280, nframes[c])>>

\* C12: when the synthesis call fails, the request is answered with exactly
\* one Error "TTS synthesis failed" and no Audio, and the handler stays in
\* the dispatch loop, where it reads the next frame.
C12_SynthesisFailureReported ==
    \A c \in Conns : result[c].kind = "fail" /\ open[c] =>
        /\ InLoop(c)
        /\ Replies(c, nframes[c]) = <<ErrorMsg("TTS synthesis failed", nframes[c])>>

C12_Witness ==
    \E c \in Conns :
        /\ nframes[c] = 2 /\ open[c] /\ pc[c] = "recv"
        /\ Replies(c, 1) = <<ErrorMsg("TTS synthesis failed", 1)>>
        /\ result[c].kind = "fail"
        /\ Replies(c, 2) = <<ErrorMsg("TTS synthesis failed", 2)>>

\* a Text message: a msgpack map of type Text, or a JSON object with a text
IsText(f) ==
    /\ f.value = "map"
    /\ \/ f.enc = "bytes" /\ f.type = "Text"
       \/ f.enc = "str" /\ f.text # "absent"

\* the last frame of c was answered without a synthesis request
NoSynthesisCall(c) == result[c] = NoResult /\ synths[c] < nframes[c]

\* every Text message with a blank text is routed to the empty-text reply
BlankTextsRejected ==
    \A f \in Frames :
        IsText(f) /\ f.text = "blank" => Route(f) = "Empty text provided"

\* C13: a Text message, msgpack or JSON, whose text is empty after trimming
\* is answered with exactly one Error "Empty text provided", no Audio and no
\* synthesis request, and the handler stays in the dispatch loop.
C13_EmptyTextRejected ==
    /\ BlankTextsRejected
    /\ \A c \in Conns : route[c] = "Empty text provided" /\ open[c] =>
          /\ InLoop(c)
          /\ Replies(c, nframes[c]) = <<ErrorMsg("Empty text provided", nframes[c])>>
          /\ NoSynthesisCall(c)

C13_Witness ==
    \E c \in Conns :
        /\ nframes[c] = 2 /\ open[c] /\ synths[c] = 1
        /\ Replies(c, 1) = <<ErrorMsg("Empty text provided", 1)>>
        /\ Len(Replies(c, 2)) = 2 /\ Replies(c, 2)[1].type = "Audio"

\* a frame that decodes to a map but is neither Text nor Eos
UnknownTag(f) ==
    /\ f.value = "map"
    /\ \/ f.enc = "bytes" /\ f.type = "other"
       \/ f.enc = "str" /\ f.text = "absent"

\* every frame with an unrecognized tag is routed to the invalid-format reply
UnknownTagsRejected ==
    \A f \in Frames : UnknownTag(f) => Route(f) = "Invalid message format"

\* C14: a frame that decodes to a map with an unrecognized tag (a msgpack
\* type other than Text and Eos, a JSON object without text) is answered with
\* exactly one Error "Invalid message format", no Audio and no synthesis
\* request, and the handler stays in the dispatch loop.
C14_UnknownTagRejected ==
    /\ UnknownTagsRejected
    /\ \A c \in Conns : route[c] = "Invalid message format" /\ open[c] =>
          /\ InLoop(c)
          /\ Replies(c, nframes[c]) = <<ErrorMsg("Invalid message format", nframes[c])>>
          /\ NoSynthesisCall(c)

C14_Witness ==
    \E c \in Conns :
        /\ nframes[c] = 2 /\ open[c] /\ synths[c] = 0 /\ pc[c] = "recv"
        /\ Replies(c, 1) = <<ErrorMsg("Invalid message format", 1)>>
        /\ Replies(c, 2) = <<ErrorMsg("Invalid message format", 2)>>

\* a frame that fails to decode: msgpack.unpackb or json.loads raises, or the
\* msgpack value is not a map
DecodeFails(f) ==
    \/ f.value = "undecodable"
    \/ f.enc = "bytes" /\ f.value # "map"

\* the message sent last on c
LastSent(c) == sent[c][Len(sent[c])]

\* C15: a frame that fails to decode is answered with Error "Invalid message
\* format", as a frame with an unrecognized tag is: when the Error for such a
\* frame has gone out, that is its text.
C15_DecodeFailureInvalidFormat ==
    \A c \in Conns : \A f \in Frames :
        DecodeFails(f) /\ route[c] = Route(f) /\ pc[c] = "err_sent"
            => LastSent(c) = ErrorMsg("Invalid message format", nframes[c])

\* the synthesis call for c's last frame has returned and its handling ended,
\* every send having succeeded
RequestHandled(c) ==
    route[c] = "synth" /\ result[c] # NoResult /\ pc[c] = "recv" /\ open[c]

\* C16: a Text message with non-empty text whose sends succeed is answered
\* with one or more Audio messages or with a single Error "TTS synthesis
\* failed", whatever the upstream returned: never with both, never with
\* nothing.
C16_TextAlwaysAnswered ==
    \A c \in Conns : RequestHandled(c) =>
        LET q == Replies(c, nframes[c]) IN
        \/ q # <<>> /\ \A i \in DOMAIN q : q[i].type = "Audio"
        \/ q = <<ErrorMsg("TTS synthesis failed", nframes[c])>>

\* the msgpack map {"type": "Eos"}
EosFrame == [enc |-> "bytes", value |-> "map", type |-> "Eos", text |-> "absent"]

\* c reads an Eos message in this step
ReadsEos(c) == nframes'[c] = nframes[c] + 1 /\ route'[c] = Route(EosFrame)

\* C17: the step that handles an Eos message sends nothing, issues no
\* synthesis request and leaves the session counter as it is, and the handler
\* is back at the top of the dispatch loop on an open socket.
C17_EosNoEffect ==
    [][\A c \in Conns : ReadsEos(c) =>
          /\ sent' = sent /\ synths' = synths
          /\ active_sessions' = active_sessions /\ incs' = incs /\ decs' = decs
          /\ pc'[c] = "recv" /\ open'[c]]_vars

C17_Witness ==
    \E c \in Conns :
        /\ Route(EosFrame) = route[c] /\ nframes[c] = 2 /\ pc[c] = "recv" /\ open[c]
        /\ Len(Replies(c, 1)) = 2 /\ Replies(c, 2) = <<>>

\* c passed the probe and its first frame, a Text with non-empty text, is
\* being answered from a container that holds samples
FirstRequestAnswered(c) ==
    /\ hs[c].probe = "ok" /\ nframes[c] = 1
    /\ route[c] = "synth" /\ result[c].kind = "wav" /\ result[c].n > 0
    /\ Replies(c, 1) # <<>>

\* C18: a client that connects to a bridge with a healthy upstream and sends
\* one JSON text frame with non-empty text receives, as its first frame, a
\* JSON message of type "audio" that carries audio data.
C18_FirstFrameIsJsonAudio ==
    \A c \in Conns : FirstRequestAnswered(c) =>
        LET m == Head(sent[c]) IN
        m.enc = "json" /\ m.type = "audio" /\ m.size > 0

\* the handler of c ended without c having been admitted, the capacity check
\* having passed: the flag or the probe failed, or Ready could not be sent
EndedUnadmitted(c) ==
    pc[c] = "done" /\ incs[c] = 0 /\ hs[c].sessions < MAX_CONCURRENT_SESSIONS

\* C19: the counter is changed only by the increment of an admission and the
\* decrement of an admitted connection's teardown: a handler that ends
\* without having been admitted has not decremented it.
C19_UnadmittedLeavesCounter ==
    \A c \in Conns : EndedUnadmitted(c) => decs[c] = 0

\* C20: the counter is incremented before Ready is sent: whenever Ready has
\* been sent on a connection whose handler has not ended, the connection is
\* counted in active_sessions.
C20_CountedBeforeReady ==
    \A c \in Conns : Admitted(c) => incs[c] - decs[c] = 1

\* C21: when the upstream returns a non-empty body that cannot be parsed,
\* neither an Audio nor an Error is sent for the request, and the handler is
\* back at the top of the dispatch loop on an open socket, ready for the next
\* frame.
C21_UnparsableBodySilent ==
    \A c \in Conns : result[c].kind = "garbage" =>
        /\ Replies(c, nframes[c]) = <<>>
        /\ CanRead(c) /\ open[c]

C21_Witness ==
    \E c \in Conns :
        /\ result[c].kind = "garbage" /\ nframes[c] = 1 /\ synths[c] = 1
        /\ CanRead(c) /\ open[c] /\ FramesRead < MaxFrames

\* a send of c fails in this step, while c is answering a request
SendFailsInLoop(c) == InLoop(c) /\ open[c] /\ ~open'[c] /\ pc[c] # "recv"

\* C22: a failed send of an Audio frame aborts the stream at that frame: the
\* step sends nothing and leaves no stream in progress, and from then on the
\* handler sends no message, reads no frame and issues no request; the only
\* step left to it is the teardown, in which its cleanup block runs.
C22_FailedSendAbortsStream ==
    [][\A c \in Conns :
          /\ SendFailsInLoop(c) =>
                sent'[c] = sent[c] /\ stream'[c] = NoStream /\ pc'[c] = "recv"
          /\ ~open[c] =>
                /\ sent'[c] = sent[c] /\ nframes'[c] = nframes[c]
                /\ synths'[c] = synths[c] /\ ~open'[c]
                /\ pc'[c] \in {pc[c], "done"}]_vars

C22_Witness ==
    \E c \in Conns :
        /\ pc[c] = "recv" /\ ~open[c] /\ route[c] = "synth" /\ nframes[c] = 1
        /\ Replies(c, 1) = <<AudioMsg(CHUNK, 1)>>
        /\ stream[c] = NoStream /\ decs[c] = 0

\* every connection accepted so far has finished its handler
AllFinished == \A c \in Conns : pc[c] \in {"idle", "done"}

\* C23: whenever every accepted connection has finished its handler, admitted
\* or rejected and in any interleaving, the session counter is 0.
C23_NoLeakedSession == AllFinished => active_sessions = 0

C23_Witness ==
    /\ AllFinished /\ connection_count = NumConns /\ active_sessions = 0
    /\ \E c, d \in Conns :
          /\ incs[c] = 1 /\ decs[c] = 0 /\ nframes[c] > 0
          /\ incs[d] = 0 /\ decs[d] = 1

====
